---------------------------- MODULE Spec2Model ----------------------------
(***************************************************************************)
(* Model of the three puzzle solvers of advent_of_code_2024:               *)
(*   day1  src/day1/src/main.rs  sorted two-column lists and their scores  *)
(*   day2  src/day2/src/main.rs  safety check of number lists              *)
(*   day3  src/day3/src/main.rs  token scan, Toggle iterator, sum          *)
(* and of the Toggle iterator of day3 on its own, with arbitrary           *)
(* predicates.                                                             *)
(*                                                                         *)
(* A text is a sequence of one-character strings.  A predicate closure is  *)
(* modelled by its extension, the set of items it accepts.                 *)
(***************************************************************************)
EXTENDS Integers, Sequences, FiniteSets, TLC

VARIABLES
    prog,            \* which program runs: "toggle", "day1", "day2", "day3"
    pc,              \* position in main
    stdout,          \* lines printed with println!
    stderr,          \* lines written to stderr
    read,            \* read_to_string: "pending", "ok" or "err"
    \* ---- day3 and Toggle
    content,         \* day3: the text read from the file
    conditionals,    \* day3: Args.conditionals
    token_end,       \* day3: the lexer's position (chars consumed so far)
    acc,             \* day3: the running sum (Acc)
    tokens,          \* day3: history of the Ok tokens the lexer yielded
    iter,            \* Toggle.iter: the items not yet pulled
    on_function,     \* Toggle.on_function (extension)
    off_function,    \* Toggle.off_function (extension)
    state,           \* Toggle.state
    out,             \* Toggle: history of the items next() returned
    calls,           \* Toggle: history of the predicate calls
    \* ---- day2
    lists,           \* the lists read from the file
    dampen,          \* Args.dampen
    overflow_checks, \* the build: TRUE panics on i32 overflow, FALSE wraps
    checked,         \* number of lists the filter has looked at
    verdicts,        \* history: the filter closure's result per list
    \* ---- day1
    lines,           \* the lines of the file
    calc_diff,       \* Args.calc_diff
    done_lines,      \* number of lines create_lists has consumed
    left_list,
    right_list

common == <<prog, pc, stdout, stderr, read>>
vars3 == <<content, conditionals, token_end, acc, tokens>>
varsT == <<iter, on_function, off_function, state, out, calls>>
vars2 == <<lists, dampen, overflow_checks, checked, verdicts>>
vars1 == <<lines, calc_diff, done_lines, left_list, right_list>>
vars == <<common, vars3, varsT, vars2, vars1>>

---------------------------------------------------------------------------
(* Helpers on sequences.                                                   *)

Min(a, b) == IF a <= b THEN a ELSE b
Max(a, b) == IF a >= b THEN a ELSE b

RECURSIVE Flatten(_)
Flatten(ss) == IF ss = <<>> THEN <<>> ELSE Head(ss) \o Flatten(Tail(ss))

RECURSIVE SeqSum(_)
SeqSum(s) == IF s = <<>> THEN 0 ELSE Head(s) + SeqSum(Tail(s))

\* All sequences over S of length 0..n.
SeqsUpTo(S, n) == UNION {[1..k -> S] : k \in 0..n}

\* The two banner lines every main prints before it reads the file.
Banner == <<[kind |-> "info"], [kind |-> "info"]>>

Idle3 ==
    /\ content = <<>> /\ conditionals = FALSE /\ token_end = 0
    /\ acc = 0 /\ tokens = <<>>
IdleT ==
    /\ iter = <<>> /\ on_function = {} /\ off_function = {}
    /\ out = <<>> /\ calls = <<>>
Idle2 ==
    /\ lists = <<>> /\ dampen = FALSE /\ overflow_checks = FALSE
    /\ checked = 0 /\ verdicts = <<>>
Idle1 ==
    /\ lines = <<>> /\ calc_diff = FALSE /\ done_lines = 0
    /\ left_list = <<>> /\ right_list = <<>>

---------------------------------------------------------------------------
(* Toggle (day3, lines 101-162).                                           *)

\* Bound of the Toggle specification: the longest input sequence.
MaxItems == 4

Items == {"A", "B", "C"}

\* The example of the Toggle documentation and of the specification.
ExampleItems == <<"A", "B", "C", "D", "E">>
ExampleOn == {"A", "D"}
ExampleOff == {"B"}

\* A variant that queries both predicates for every item: first the
\* off-function, then the on-function.
ToggleItem_QueryBoth(st, v, onSet, offSet) ==
    LET s1 == IF v \in offSet THEN FALSE ELSE st
        s2 == IF v \in onSet THEN TRUE ELSE s1
    IN  [state |-> s2, emit |-> s2, preds |-> <<"off", "on">>]

\* A variant that decides the emission on the state before the update.
ToggleItem_EmitOnOldState(st, v, onSet, offSet) ==
    LET s1 == IF st THEN ~(v \in offSet) ELSE v \in onSet
    IN  [state |-> s1, emit |-> st, preds |-> IF st THEN <<"off">> ELSE <<"on">>]

\* The body of the while loop of Toggle::next for one item v pulled from
\* the underlying iterator: the state update, then the decision to return.
\* preds lists the predicate closures the body called, in order.
ToggleItem(st, v, onSet, offSet) ==
    IF st
    THEN LET s1 == IF v \in offSet THEN FALSE ELSE st
         IN  [state |-> s1, emit |-> s1, preds |-> <<"off">>]
    ELSE LET s1 == IF v \in onSet THEN TRUE ELSE st
         IN  [state |-> s1, emit |-> s1, preds |-> <<"on">>]

\* One call of Toggle::next: pull items until one is returned or the
\* underlying iterator is exhausted.  result is <<v>> for Some(v) and <<>>
\* for None; log has one entry per item pulled.
RECURSIVE ToggleRun(_, _, _, _, _)
ToggleRun(it, st, onSet, offSet, log) ==
    IF it = <<>>
    THEN [iter |-> it, state |-> st, result |-> <<>>, log |-> log]
    ELSE LET v == Head(it)
             r == ToggleItem(st, v, onSet, offSet)
             e == [item |-> v, before |-> st, after |-> r.state,
                   preds |-> r.preds]
         IN  IF r.emit
             THEN [iter |-> Tail(it), state |-> r.state, result |-> <<v>>,
                   log |-> Append(log, e)]
             ELSE ToggleRun(Tail(it), r.state, onSet, offSet, Append(log, e))

\* Toggle::new with any initial state (new_on, new_off, new).
InitToggle ==
    /\ prog = "toggle" /\ pc = "run" /\ stdout = <<>> /\ stderr = <<>>
    /\ read = "none"
    /\ \/ /\ iter \in SeqsUpTo(Items, MaxItems)
          /\ on_function \in SUBSET Items
          /\ off_function \in SUBSET Items
       \/ /\ iter = ExampleItems
          /\ on_function = ExampleOn
          /\ off_function = ExampleOff
    /\ state \in BOOLEAN
    /\ out = <<>> /\ calls = <<>>
    /\ Idle3 /\ Idle2 /\ Idle1

\* The consumer calls next() until it returns None.
ToggleNext ==
    /\ prog = "toggle" /\ pc = "run"
    /\ LET r == ToggleRun(iter, state, on_function, off_function, <<>>)
       IN  /\ iter' = r.iter
           /\ state' = r.state
           /\ out' = out \o r.result
           /\ calls' = calls \o r.log
           /\ pc' = IF r.result = <<>> THEN "done" ELSE "run"
    /\ UNCHANGED <<prog, read, stdout, stderr, on_function, off_function>>
    /\ UNCHANGED <<vars3, vars2, vars1>>

NextToggle == ToggleNext

SpecToggle == InitToggle /\ [][NextToggle]_vars

---------------------------------------------------------------------------
(* day3: the tokenizer (lines 29-53).                                      *)

Digits == {"0", "1", "2", "3", "4", "5", "6", "7", "8", "9"}
DigitChars == <<"0", "1", "2", "3", "4", "5", "6", "7", "8", "9">>
DigitVal(c) == (CHOOSE i \in 1..10 : DigitChars[i] = c) - 1

TokDo == [kind |-> "Do", l |-> 0, r |-> 0]
TokDont == [kind |-> "Dont", l |-> 0, r |-> 0]
TokMul(l, r) == [kind |-> "Mul", l |-> l, r |-> r]

Accepting == {"Mul", "Do", "Dont"}

\* A variant of the automaton whose operands are [0-9]{1,3}: a leading
\* zero is accepted.
Delta_LeadingZero(q, c) ==
    CASE q = "start" /\ c = "m" -> "m"
      [] q = "start" /\ c = "d" -> "d"
      [] q = "m" /\ c = "u" -> "mu"
      [] q = "mu" /\ c = "l" -> "mul"
      [] q = "mul" /\ c = "(" -> "A0"
      [] q = "A0" /\ c \in Digits -> "A1"
      [] q = "A1" /\ c \in Digits -> "A2"
      [] q = "A2" /\ c \in Digits -> "Acomma"
      [] q \in {"A1", "A2", "Acomma"} /\ c = "," -> "B0"
      [] q = "B0" /\ c \in Digits -> "B1"
      [] q = "B1" /\ c \in Digits -> "B2"
      [] q = "B2" /\ c \in Digits -> "Bclose"
      [] q \in {"B1", "B2", "Bclose"} /\ c = ")" -> "Mul"
      [] q = "d" /\ c = "o" -> "do"
      [] q = "do" /\ c = "(" -> "do("
      [] q = "do(" /\ c = ")" -> "Do"
      [] q = "do" /\ c = "n" -> "don"
      [] q = "don" /\ c = "'" -> "don'"
      [] q = "don'" /\ c = "t" -> "don't"
      [] q = "don't" /\ c = "(" -> "don't("
      [] q = "don't(" /\ c = ")" -> "Dont"
      [] OTHER -> "fail"

\* The automaton of the three patterns of Token:
\*   mul\((([1-9][0-9]{0,2})|0),(([1-9][0-9]{0,2})|0)\)   do()   don't()
\* A state is named after what has been read; "Mul", "Do" and "Dont" accept.
Delta(q, c) ==
    CASE q = "start" /\ c = "m" -> "m"
      [] q = "start" /\ c = "d" -> "d"
      [] q = "m" /\ c = "u" -> "mu"
      [] q = "mu" /\ c = "l" -> "mul"
      [] q = "mul" /\ c = "(" -> "A0"
      [] q = "A0" /\ c = "0" -> "Acomma"
      [] q = "A0" /\ c \in Digits \ {"0"} -> "A1"
      [] q = "A1" /\ c \in Digits -> "A2"
      [] q = "A2" /\ c \in Digits -> "Acomma"
      [] q \in {"A1", "A2", "Acomma"} /\ c = "," -> "B0"
      [] q = "B0" /\ c = "0" -> "Bclose"
      [] q = "B0" /\ c \in Digits \ {"0"} -> "B1"
      [] q = "B1" /\ c \in Digits -> "B2"
      [] q = "B2" /\ c \in Digits -> "Bclose"
      [] q \in {"B1", "B2", "Bclose"} /\ c = ")" -> "Mul"
      [] q = "d" /\ c = "o" -> "do"
      [] q = "do" /\ c = "(" -> "do("
      [] q = "do(" /\ c = ")" -> "Do"
      [] q = "do" /\ c = "n" -> "don"
      [] q = "don" /\ c = "'" -> "don'"
      [] q = "don'" /\ c = "t" -> "don't"
      [] q = "don't" /\ c = "(" -> "don't("
      [] q = "don't(" /\ c = ")" -> "Dont"
      [] OTHER -> "fail"

\* Run the automaton on text from (0-based) position pos: matched is the
\* number of characters read before it accepted or failed, q the accepting
\* state or "fail".
RECURSIVE Scan(_, _, _, _)
Scan(text, i, q, n) ==
    IF q \in Accepting THEN [matched |-> n, q |-> q]
    ELSE IF i > Len(text) THEN [matched |-> n, q |-> "fail"]
    ELSE LET q2 == Delta(q, text[i])
         IN  IF q2 = "fail" THEN [matched |-> n, q |-> "fail"]
             ELSE Scan(text, i + 1, q2, n + 1)

LexRun(text, pos) == Scan(text, pos + 1, "start", 0)

\* str::find(','): the 0-based index of the first match, -1 for None.
RECURSIVE FindFrom(_, _, _)
FindFrom(s, c, i) ==
    IF i > Len(s) THEN -1
    ELSE IF s[i] = c THEN i - 1
    ELSE FindFrom(s, c, i + 1)

Find(s, c) == FindFrom(s, c, 1)

U16_MAX == 65535

\* str::parse::<u16>: -1 stands for Err (empty, a character that is no
\* digit, or a value above u16::MAX).
RECURSIVE ParseDigits(_, _)
ParseDigits(s, a) ==
    IF s = <<>> THEN a
    ELSE IF Head(s) \notin Digits THEN -1
    ELSE LET a2 == a * 10 + DigitVal(Head(s))
         IN  IF a2 > U16_MAX THEN -1 ELSE ParseDigits(Tail(s), a2)

ParseU16(s) == IF s = <<>> THEN -1 ELSE ParseDigits(s, 0)

\* mul_callback: ok is FALSE when one of its three unwrap() calls panics.
mul_callback(slice) ==
    LET len == Len(slice)
        sep == Find(slice, ",")
    IN  IF sep < 0 THEN [ok |-> FALSE, l |-> 0, r |-> 0]
        ELSE LET left == ParseU16(SubSeq(slice, 5, sep))
                 right == ParseU16(SubSeq(slice, sep + 2, len - 1))
             IN  IF left < 0 \/ right < 0
                 THEN [ok |-> FALSE, l |-> 0, r |-> 0]
                 ELSE [ok |-> TRUE, l |-> left, r |-> right]

\* A variant in which the error token also swallows the character the
\* automaton failed on.
ErrorEnds_SwallowFailing(text, pos, matched) ==
    {Min(Len(text), pos + matched + 1)}

\* Where the lexer's error token may end when no pattern matches at pos
\* after `matched` characters were read successfully: the lexer skips at
\* least one character and at most the characters it had read; it never
\* skips the character it failed on (unless that is the first one).
ErrorEnds(text, pos, matched) == (pos + 1)..(pos + Max(1, matched))

---------------------------------------------------------------------------
(* day3: main (lines 57-99).                                               *)

\* Bounds of the day3 inputs: fragments per text, digits per raw operand.
MaxFrags == 3
MaxDigits == 4

T_mul(a, b) == <<"m", "u", "l", "(">> \o a \o <<",">> \o b \o <<")">>
T_do == <<"d", "o", "(", ")">>
T_dont == <<"d", "o", "n", "'", "t", "(", ")">>

\* Whole tokens, truncated tokens and junk.
Fragments ==
    { T_mul(<<"2">>, <<"3">>), T_mul(<<"4">>, <<"5">>),
      <<"m", "u", "l", "(", "2", ",">>, <<"m", "u", "l", "(">>,
      T_do, T_dont, <<"d", "o">>, <<"d", "o", "n", "'", "t", "(">>,
      <<"x">>, <<"3", ")">> }

FragTexts == {Flatten(fs) : fs \in SeqsUpTo(Fragments, MaxFrags)}

\* mul(A,B) for every A and B over two digits, of length 0..MaxDigits.
NumTexts ==
    {T_mul(a, b) : a \in SeqsUpTo({"0", "7"}, MaxDigits),
                   b \in SeqsUpTo({"0", "7"}, MaxDigits)}

\* The texts the specification and the module documentation name.
Ex_Cond == T_mul(<<"2">>, <<"3">>) \o T_dont \o T_mul(<<"4">>, <<"5">>)
               \o T_do \o T_mul(<<"1">>, <<"1">>)
Ex_Plain == T_mul(<<"2">>, <<"3">>) \o <<"x">> \o T_mul(<<"4">>, <<"5">>)
               \o T_dont \o T_mul(<<"9">>, <<"9">>)
Ex_Skip == <<"x">> \o T_mul(<<"2">>, <<"3">>) \o T_mul(<<"4">>, <<"5">>)
Ex_Nested == <<"m", "u", "l", "(", "2", ",">> \o T_mul(<<"3">>, <<"4">>)
Ex_LeadingZero == T_mul(<<"0", "2">>, <<"3">>)
Ex_FourDigits == T_mul(<<"1", "0", "0", "0">>, <<"3">>)
Ex_Zero == T_mul(<<"0">>, <<"0">>)
Ex_Max == T_mul(<<"9", "9", "9">>, <<"9", "9", "9">>)
Ex_DoSpace == <<"d", "o", " ", "(", ")">>

ExampleTexts ==
    { Ex_Cond, Ex_Plain, Ex_Skip, Ex_Nested, Ex_LeadingZero, Ex_FourDigits,
      Ex_Zero, Ex_Max, Ex_DoSpace }

\* Toggle::new_on: the initial state of toggle_on.
Toggle_new_on == TRUE

\* A variant of the pipeline that applies the toggle in both modes.
Evaluate_AlwaysToggle(cond, st, a, tok) ==
    LET t == ToggleItem(st, tok, {TokDo}, {TokDont})
    IN  [state |-> t.state,
         acc |-> IF t.emit /\ tok.kind = "Mul" THEN a + tok.l * tok.r ELSE a]

\* A variant of the pipeline that applies the toggle in neither mode.
Evaluate_NeverToggle(cond, st, a, tok) ==
    [state |-> st,
     acc |-> IF tok.kind = "Mul" THEN a + tok.l * tok.r ELSE a]

\* One Ok token through the adapters of lines 74-94: toggle_on (only with
\* conditionals), filter_map to the Mul pairs, map to the product, sum.
Evaluate(cond, st, a, tok) ==
    IF cond
    THEN LET t == ToggleItem(st, tok, {TokDo}, {TokDont})
         IN  [state |-> t.state,
              acc |-> IF t.emit /\ tok.kind = "Mul"
                      THEN a + tok.l * tok.r ELSE a]
    ELSE [state |-> st,
          acc |-> IF tok.kind = "Mul" THEN a + tok.l * tok.r ELSE a]

\* After Args::parse and the two banner lines.
InitDay3 ==
    /\ prog = "day3" /\ pc = "start" /\ stdout = Banner /\ stderr = <<>>
    /\ read = "pending"
    /\ content \in FragTexts \cup NumTexts \cup ExampleTexts
    /\ conditionals \in BOOLEAN
    /\ token_end = 0 /\ acc = 0 /\ tokens = <<>>
    /\ state = Toggle_new_on
    /\ IdleT /\ Idle2 /\ Idle1

\* read_to_string returned Ok(content).
D3ReadOk ==
    /\ prog = "day3" /\ pc = "start"
    /\ pc' = "run"
    /\ read' = "ok"
    /\ UNCHANGED <<prog, stdout, stderr, vars3, varsT, vars2, vars1>>

\* A variant that goes on with the text read so far after a failed read.
D3ReadErr_GoOn ==
    /\ prog = "day3" /\ pc = "start"
    /\ pc' = "run"
    /\ read' = "err"
    /\ stderr' = Append(stderr, [kind |-> "error"])
    /\ UNCHANGED <<prog, stdout, vars3, varsT, vars2, vars1>>

\* read_to_string returned Err: the ? operator returns it from main.
D3ReadErr ==
    /\ prog = "day3" /\ pc = "start"
    /\ pc' = "read_failed"
    /\ read' = "err"
    /\ stderr' = Append(stderr, [kind |-> "error"])
    /\ UNCHANGED <<prog, stdout, vars3, varsT, vars2, vars1>>

\* sum() pulls: the lexer yields one item, which runs through the adapters.
D3Pull ==
    /\ prog = "day3" /\ pc = "run" /\ token_end < Len(content)
    /\ LET m == LexRun(content, token_end)
       IN  IF m.q \in Accepting
           THEN LET slice == SubSeq(content, token_end + 1,
                                    token_end + m.matched)
                    cb == IF m.q = "Mul" THEN mul_callback(slice)
                          ELSE [ok |-> TRUE, l |-> 0, r |-> 0]
                    tok == [kind |-> m.q, l |-> cb.l, r |-> cb.r]
                    e == Evaluate(conditionals, state, acc, tok)
                IN  /\ token_end' = token_end + m.matched
                    /\ IF cb.ok
                       THEN /\ tokens' = Append(tokens,
                                   [tok |-> tok, start |-> token_end,
                                    len |-> m.matched])
                            /\ state' = e.state
                            /\ acc' = e.acc
                            /\ pc' = pc
                       ELSE /\ pc' = "panicked"
                            /\ UNCHANGED <<tokens, state, acc>>
           ELSE \* Err(()): dropped by filter_map(|t| t.ok())
                /\ token_end' \in ErrorEnds(content, token_end, m.matched)
                /\ UNCHANGED <<pc, tokens, state, acc>>
    /\ UNCHANGED <<prog, read, stdout, stderr, content, conditionals>>
    /\ UNCHANGED <<iter, on_function, off_function, out, calls>>
    /\ UNCHANGED <<vars2, vars1>>

\* The lexer is exhausted: sum() returns and the result is printed.
D3Print ==
    /\ prog = "day3" /\ pc = "run" /\ token_end = Len(content)
    /\ pc' = "printed"
    /\ stdout' = Append(stdout, [kind |-> "result", value |-> acc])
    /\ UNCHANGED <<prog, read, stderr, vars3, varsT, vars2, vars1>>

NextDay3 == D3ReadOk \/ D3ReadErr \/ D3Pull \/ D3Print

SpecDay3 == InitDay3 /\ [][NextDay3]_vars

---------------------------------------------------------------------------
(* day2 (NumType = i32).                                                   *)

I32_MAX == 2147483647
I32_MIN == -I32_MAX - 1

\* last - num on i32.  ovf tells that the exact difference is outside
\* i32; val is the wrapped result (the exact one without overflow).  No
\* intermediate value leaves the i32 range.
SubI32(a, b) ==
    IF (a >= 0 /\ b >= 0) \/ (a < 0 /\ b < 0)
    THEN [ovf |-> FALSE, val |-> a - b]
    ELSE IF a >= 0
    THEN LET s == (a - I32_MAX) - (b + 1)      \* a - b - 2^31
         IN  IF s < 0 THEN [ovf |-> FALSE, val |-> a - b]
             ELSE [ovf |-> TRUE, val |-> (s - I32_MAX) - 1]
    ELSE LET s == ((a + I32_MAX) - b) + 1      \* a - b + 2^31
         IN  IF s >= 0 THEN [ovf |-> FALSE, val |-> a - b]
             ELSE [ovf |-> TRUE, val |-> (s + I32_MAX) + 1]

\* i32::abs: i32::MIN has no absolute value in i32 and wraps to itself.
AbsI32(d) ==
    IF d = I32_MIN THEN [ovf |-> TRUE, val |-> I32_MIN]
    ELSE [ovf |-> FALSE, val |-> IF d < 0 THEN -d ELSE d]

\* The for loop of check_list.  oc is the build's overflow check: with it
\* an overflowing operation panics, without it the result wraps.
RECURSIVE CheckLoop(_, _, _, _, _)
CheckLoop(last, rest, ascending, descending, oc) ==
    IF rest = <<>> THEN "true"
    ELSE LET num == Head(rest)
             d == SubI32(last, num)
             diff == d.val
             a == AbsI32(diff)
             descending2 == IF diff < 0 THEN FALSE ELSE descending
             ascending2 == IF diff > 0 THEN FALSE ELSE ascending
         IN  IF d.ovf /\ oc THEN "panic"
             ELSE IF diff = 0 THEN "false"
             ELSE IF a.ovf /\ oc THEN "panic"
             ELSE IF a.val > 3 THEN "false"
             ELSE IF ~ascending2 /\ ~descending2 THEN "false"
             ELSE CheckLoop(num, Tail(rest), ascending2, descending2, oc)

\* check_list: "true", "false" or "panic".
check_list(list, oc) ==
    IF list = <<>> THEN "true"
    ELSE CheckLoop(Head(list), Tail(list), TRUE, TRUE, oc)

\* list.into_iter().enumerate().filter_map(..): the list without the
\* element at (0-based) index i.
Without(list, i) ==
    [j \in 1..(Len(list) - 1) |-> IF j <= i THEN list[j] ELSE list[j + 1]]

\* (first..list.len()).filter(|i| check_list(..)).next().is_some()
RECURSIVE AnyRemoval(_, _, _)
AnyRemoval(list, i, oc) ==
    IF i >= Len(list) THEN "false"
    ELSE LET r == check_list(Without(list, i), oc)
         IN  IF r = "false" THEN AnyRemoval(list, i + 1, oc) ELSE r

\* A variant whose range of removal positions starts at 1.
DampenedVerdict_SkipFirst(list, oc) ==
    LET r == check_list(list, oc)
    IN  IF r = "false" THEN AnyRemoval(list, 1, oc) ELSE r

\* The filter closure of check_lists_dampended.
DampenedVerdict(list, oc) ==
    LET r == check_list(list, oc)
    IN  IF r = "false" THEN AnyRemoval(list, 0, oc) ELSE r

\* The filter closure of check_lists.
PlainVerdict(list, oc) == check_list(list, oc)

\* Bounds of the day2 inputs: the length of the enumerated lists and the
\* number of lists that follow the first.
MaxListLen == 4
MaxTail == 1

SmallNums == {1, 2, 4, 8}
SmallLists == SeqsUpTo(SmallNums, MaxListLen)

\* The six lines of the module documentation.
DocLists ==
    { <<7, 6, 4, 2, 1>>, <<1, 2, 7, 8, 9>>, <<9, 7, 6, 2, 1>>,
      <<1, 3, 2, 4, 5>>, <<8, 6, 4, 4, 1>>, <<1, 3, 6, 7, 9>> }

\* Lists at the ends of the i32 range.
ExtremeLists ==
    { <<I32_MAX, -I32_MAX>>, <<I32_MIN, 0>>, <<0, I32_MIN>>,
      <<-2, I32_MAX>>, <<I32_MAX, I32_MAX - 1, I32_MAX - 4>> }

\* read_lists: the file as its lists of numbers.
Files2 ==
    {<<>>} \cup
    {<<l>> \o t : l \in SmallLists \cup DocLists \cup ExtremeLists,
                  t \in SeqsUpTo(DocLists, MaxTail)}

InitDay2 ==
    /\ prog = "day2" /\ pc = "start" /\ stdout = Banner /\ stderr = <<>>
    /\ read = "pending"
    /\ lists \in Files2
    /\ dampen \in BOOLEAN
    /\ overflow_checks \in BOOLEAN
    /\ checked = 0 /\ verdicts = <<>>
    /\ state = FALSE
    /\ Idle3 /\ IdleT /\ Idle1

\* read_to_string returned Ok(content); read_lists made the lists.
D2ReadOk ==
    /\ prog = "day2" /\ pc = "start"
    /\ pc' = "run"
    /\ read' = "ok"
    /\ UNCHANGED <<prog, stdout, stderr, vars3, varsT, vars2, vars1>>

\* read_to_string returned Err: the ? operator returns it from main.
D2ReadErr ==
    /\ prog = "day2" /\ pc = "start"
    /\ pc' = "read_failed"
    /\ read' = "err"
    /\ stderr' = Append(stderr, [kind |-> "error"])
    /\ UNCHANGED <<prog, stdout, vars3, varsT, vars2, vars1>>

\* count() pulls the next list through the filter closure.
D2Filter ==
    /\ prog = "day2" /\ pc = "run" /\ checked < Len(lists)
    /\ LET list == lists[checked + 1]
           v == IF dampen THEN DampenedVerdict(list, overflow_checks)
                ELSE PlainVerdict(list, overflow_checks)
       IN  IF v = "panic"
           THEN /\ pc' = "panicked"
                /\ UNCHANGED <<checked, verdicts>>
           ELSE /\ checked' = checked + 1
                /\ verdicts' = Append(verdicts, v = "true")
                /\ pc' = pc
    /\ UNCHANGED <<prog, read, stdout, stderr, lists, dampen, overflow_checks>>
    /\ UNCHANGED <<vars3, varsT, vars1>>

\* count() returns the number of lists the filter let through; main
\* prints it.
D2Print ==
    /\ prog = "day2" /\ pc = "run" /\ checked = Len(lists)
    /\ pc' = "printed"
    /\ stdout' = Append(stdout,
          [kind |-> "result",
           value |-> Cardinality({i \in 1..Len(verdicts) : verdicts[i]})])
    /\ UNCHANGED <<prog, read, stderr, vars3, varsT, vars2, vars1>>

NextDay2 == D2ReadOk \/ D2ReadErr \/ D2Filter \/ D2Print

SpecDay2 == InitDay2 /\ [][NextDay2]_vars

---------------------------------------------------------------------------
(* day1.                                                                   *)

\* Bound of the day1 inputs: the number of lines of the file.
MaxLines == 3

Nums1 == {1, 2, 3}

\* A line is blank, has no "   " separator (split_once(..).unwrap()
\* panics), has a left or a right part that is no number (parse().unwrap()
\* panics), or holds two numbers.
Lines1 ==
    {[kind |-> k, l |-> 0, r |-> 0] : k \in {"blank", "nosep", "badleft"}}
    \cup {[kind |-> "badright", l |-> a, r |-> 0] : a \in Nums1}
    \cup {[kind |-> "pair", l |-> a, r |-> b] : a \in Nums1, b \in Nums1}

\* Vec::insert(pos, elem), pos 0-based.
InsertAt(vec, pos, elem) ==
    SubSeq(vec, 1, pos) \o <<elem>> \o SubSeq(vec, pos + 1, Len(vec))

\* vec.binary_search(&elem).unwrap_or_else(|e| e): the index of a match,
\* any of them when there are several, or else the index at which elem
\* keeps the order.
binary_search(vec, elem) ==
    LET found == {i \in 1..Len(vec) : vec[i] = elem}
    IN  IF found # {} THEN {i - 1 : i \in found}
        ELSE {Cardinality({i \in 1..Len(vec) : vec[i] < elem})}

\* A variant that puts an element that is not yet in the vec at its end.
insert_AppendNew(vec, elem) ==
    IF \E i \in 1..Len(vec) : vec[i] = elem
    THEN {InsertAt(vec, pos, elem) : pos \in binary_search(vec, elem)}
    ELSE {Append(vec, elem)}

\* insert: the vecs it may leave.
insert(vec, elem) ==
    {InsertAt(vec, pos, elem) : pos \in binary_search(vec, elem)}

Abs(x) == IF x < 0 THEN -x ELSE x

\* calc_diff_score.  The numbers of Nums1 keep every operation inside i32
\* and u32.
calc_diff_score(left, right) ==
    SeqSum([i \in 1..Min(Len(left), Len(right)) |-> Abs(left[i] - right[i])])

\* calc_sim_score; partition_point on a sorted slice.
calc_sim_score(left, right) ==
    SeqSum([i \in 1..Len(left) |->
        LET start == Cardinality({j \in 1..Len(right) : right[j] < left[i]})
            end == Cardinality({j \in 1..Len(right) : right[j] <= left[i]})
        IN  (end - start) * left[i]])

InitDay1 ==
    /\ prog = "day1" /\ pc = "start" /\ stdout = Banner /\ stderr = <<>>
    /\ read = "pending"
    /\ lines \in SeqsUpTo(Lines1, MaxLines)
    /\ calc_diff \in BOOLEAN
    /\ done_lines = 0 /\ left_list = <<>> /\ right_list = <<>>
    /\ state = FALSE
    /\ Idle3 /\ IdleT /\ Idle2

\* read_to_string returned Ok(content).
D1ReadOk ==
    /\ prog = "day1" /\ pc = "start"
    /\ pc' = "run"
    /\ read' = "ok"
    /\ UNCHANGED <<prog, stdout, stderr, vars3, varsT, vars2, vars1>>

\* read_to_string returned Err(e): eprintln!, and main returns.
D1ReadErr ==
    /\ prog = "day1" /\ pc = "start"
    /\ pc' = "read_failed"
    /\ read' = "err"
    /\ stderr' = Append(stderr, [kind |-> "error"])
    /\ UNCHANGED <<prog, stdout, vars3, varsT, vars2, vars1>>

\* One iteration of the for loop of create_lists.
D1Line ==
    /\ prog = "day1" /\ pc = "run" /\ done_lines < Len(lines)
    /\ LET line == lines[done_lines + 1]
       IN  CASE line.kind = "blank" ->
                    /\ done_lines' = done_lines + 1
                    /\ UNCHANGED <<pc, left_list, right_list>>
             [] line.kind \in {"nosep", "badleft"} ->
                    /\ pc' = "panicked"
                    /\ UNCHANGED <<done_lines, left_list, right_list>>
             [] line.kind = "badright" ->
                    /\ left_list' \in insert(left_list, line.l)
                    /\ pc' = "panicked"
                    /\ UNCHANGED <<done_lines, right_list>>
             [] line.kind = "pair" ->
                    /\ left_list' \in insert(left_list, line.l)
                    /\ right_list' \in insert(right_list, line.r)
                    /\ done_lines' = done_lines + 1
                    /\ pc' = pc
    /\ UNCHANGED <<prog, read, stdout, stderr, lines, calc_diff>>
    /\ UNCHANGED <<vars3, varsT, vars2>>

\* create_lists returned; main prints the score.
D1Print ==
    /\ prog = "day1" /\ pc = "run" /\ done_lines = Len(lines)
    /\ pc' = "printed"
    /\ stdout' = Append(stdout,
          [kind |-> "result",
           value |-> IF calc_diff THEN calc_diff_score(left_list, right_list)
                     ELSE calc_sim_score(left_list, right_list)])
    /\ UNCHANGED <<prog, read, stderr, vars3, varsT, vars2, vars1>>

NextDay1 == D1ReadOk \/ D1ReadErr \/ D1Line \/ D1Print

SpecDay1 == InitDay1 /\ [][NextDay1]_vars

---------------------------------------------------------------------------
(* The three programs together.                                            *)

Init == InitDay1 \/ InitDay2 \/ InitDay3

Next == NextDay1 \/ NextDay2 \/ NextDay3

Spec == Init /\ [][Next]_vars

---------------------------------------------------------------------------
(* Properties of Toggle (SpecToggle).                                      *)

\* The items pulled from the underlying iterator so far, and the state the
\* Toggle was constructed with.
Pulled == [i \in 1..Len(calls) |-> calls[i].item]
InitialState == IF calls = <<>> THEN state ELSE calls[1].before

\* The state after one item, as the documentation states it.
RefStateAfter(st, v, onSet, offSet) ==
    IF ~st /\ v \in onSet THEN TRUE
    ELSE IF st /\ v \in offSet THEN FALSE
    ELSE st

RECURSIVE RefToggleOut(_, _, _, _)
RefToggleOut(items, st, onSet, offSet) ==
    IF items = <<>> THEN <<>>
    ELSE LET s2 == RefStateAfter(st, Head(items), onSet, offSet)
         IN  (IF s2 THEN <<Head(items)>> ELSE <<>>)
                 \o RefToggleOut(Tail(items), s2, onSet, offSet)

IsExampleRun ==
    /\ prog = "toggle" /\ pc = "done"
    /\ Pulled = ExampleItems
    /\ on_function = ExampleOn /\ off_function = ExampleOff
    /\ InitialState = FALSE

\* C1: Toggle::next returns, in order, exactly the items after which the
\* state is true: every item first updates the state (false and on -> true,
\* true and off -> false) and is returned iff the updated state is true.
\* The items [A,B,C,D,E] with on = {A,D}, off = {B} and initial state false
\* give [A,D,E].
C1_ToggleOutput ==
    prog = "toggle" =>
        /\ out = RefToggleOut(Pulled, InitialState, on_function, off_function)
        /\ \A i \in 1..Len(calls) :
              calls[i].after = RefStateAfter(calls[i].before, calls[i].item,
                                             on_function, off_function)
        /\ pc = "done" => iter = <<>>
        /\ IsExampleRun => out = <<"A", "D", "E">>

C1_Witness == IsExampleRun /\ out = <<"A", "D", "E">>

\* C7: Toggle::next calls exactly one predicate per item pulled, the
\* off-function when the state before the item is true and the on-function
\* when it is false; an item that satisfies both predicates changes the
\* state once.
C7_OnePredicatePerItem ==
    prog = "toggle" =>
        \A i \in 1..Len(calls) :
            /\ calls[i].preds = IF calls[i].before THEN <<"off">> ELSE <<"on">>
            /\ calls[i].item \in on_function \cap off_function
                  => calls[i].after = ~calls[i].before

C7_Witness ==
    /\ prog = "toggle"
    /\ \E i \in 1..Len(calls) :
          /\ calls[i].item \in on_function \cap off_function
          /\ calls[i].before /\ ~calls[i].after
          /\ calls[i].preds = <<"off">>

---------------------------------------------------------------------------
(* Properties of day3 (SpecDay3).                                          *)

RECURSIVE SumOver(_, _)
SumOver(S, f) ==
    IF S = {} THEN 0
    ELSE LET x == CHOOSE y \in S : TRUE
         IN  f[x] + SumOver(S \ {x}, f)

Products == [i \in 1..Len(tokens) |-> tokens[i].tok.l * tokens[i].tok.r]
MulIndexes == {i \in 1..Len(tokens) : tokens[i].tok.kind = "Mul"}

\* Multiplication is enabled at token i: no Do or Dont comes before it, or
\* the last one before it is a Do.
EnabledAt(i) ==
    LET sw == {j \in 1..(i - 1) : tokens[j].tok.kind \in {"Do", "Dont"}}
    IN  sw = {} \/ tokens[CHOOSE j \in sw : \A k \in sw : k <= j].tok.kind = "Do"

Printed == prog = "day3" /\ pc = "printed"
Result == stdout[Len(stdout)].value

\* C2: with conditionals, the printed result is the sum of left*right over
\* the Mul tokens that occur while multiplication is enabled (enabled at
\* the start, disabled by Dont, enabled again by Do).
\* mul(2,3)don't()mul(4,5)do()mul(1,1) gives 7.
C2_ConditionalSum ==
    (prog = "day3" /\ conditionals /\ pc \in {"run", "printed"}) =>
        /\ acc = SumOver({i \in MulIndexes : EnabledAt(i)}, Products)
        /\ pc = "printed" => Result = acc
        /\ (pc = "printed" /\ content = Ex_Cond) => Result = 7

C2_Witness ==
    /\ Printed /\ conditionals /\ content = Ex_Cond
    /\ Len(tokens) = 5 /\ Result = 7

\* C3: without conditionals, the printed result is the sum of left*right
\* over every Mul token; Do and Dont tokens change nothing.
\* mul(2,3)xmul(4,5)don't()mul(9,9) gives 107.
C3_PlainSum ==
    (prog = "day3" /\ ~conditionals /\ pc \in {"run", "printed"}) =>
        /\ acc = SumOver(MulIndexes, Products)
        /\ pc = "printed" => Result = acc
        /\ (pc = "printed" /\ content = Ex_Plain) => Result = 107

C3_Witness ==
    /\ Printed /\ ~conditionals /\ content = Ex_Plain
    /\ Len(tokens) = 4 /\ Result = 107

\* An operand of mul: the digit 0, or one to three digits the first of
\* which is not 0.
IsOperand(s) ==
    /\ Len(s) \in 1..3
    /\ \A i \in 1..Len(s) : s[i] \in Digits
    /\ Len(s) > 1 => s[1] # "0"

Pow10(n) == IF n = 0 THEN 1 ELSE IF n = 1 THEN 10 ELSE 100

DecimalValue(s) ==
    SumOver(1..Len(s), [i \in 1..Len(s) |-> DigitVal(s[i]) * Pow10(Len(s) - i)])

\* The operand pairs <<A, B>> for which slice is mul(A,B): at most one.
MulParts(slice) ==
    {ab \in {<<SubSeq(slice, 5, 4 + km[1]),
               SubSeq(slice, 6 + km[1], 5 + km[1] + km[2])>> :
                km \in {x \in (1..3) \X (1..3) : Len(slice) = x[1] + x[2] + 6}} :
        /\ slice = T_mul(ab[1], ab[2])
        /\ IsOperand(ab[1]) /\ IsOperand(ab[2])}

\* slice is mul(A,B) for operands A and B with the values l and r.
IsMulText(slice, l, r) ==
    \E ab \in MulParts(slice) :
        l = DecimalValue(ab[1]) /\ r = DecimalValue(ab[2])

TokenText(i) ==
    SubSeq(content, tokens[i].start + 1, tokens[i].start + tokens[i].len)

Toks == [i \in 1..Len(tokens) |-> tokens[i].tok]

\* C4: a Mul(l, r) token is produced only for a substring mul(A,B) whose
\* operands are 0 or one to three digits without a leading zero; l and r
\* are their decimal values, in 0..999, and mul_callback never panics.
\* mul(02,3) and mul(1000,3) yield no token.
C4_MulGrammar ==
    prog = "day3" =>
        /\ pc # "panicked"
        /\ \A i \in MulIndexes :
              /\ IsMulText(TokenText(i), tokens[i].tok.l, tokens[i].tok.r)
              /\ tokens[i].tok.l \in 0..999 /\ tokens[i].tok.r \in 0..999
        /\ content \in {Ex_LeadingZero, Ex_FourDigits} => tokens = <<>>
        /\ (pc = "printed" /\ content = Ex_Zero) => Toks = <<TokMul(0, 0)>>

C4_Witness ==
    /\ Printed /\ content = Ex_Max
    /\ Toks = <<TokMul(999, 999)>>

\* The token that starts at (1-based) position p of text, if any.
RefTokensAt(text, p) ==
    LET fits(n) == p + n - 1 <= Len(text)
        sub(n) == SubSeq(text, p, p + n - 1)
    IN  (IF fits(4) /\ sub(4) = T_do
         THEN {[tok |-> TokDo, start |-> p - 1, len |-> 4]} ELSE {})
        \cup
        (IF fits(7) /\ sub(7) = T_dont
         THEN {[tok |-> TokDont, start |-> p - 1, len |-> 7]} ELSE {})
        \cup
        {[tok |-> TokMul(DecimalValue(ab[1]), DecimalValue(ab[2])),
          start |-> p - 1, len |-> Len(ab[1]) + Len(ab[2]) + 6] :
            ab \in UNION {MulParts(sub(n)) : n \in {k \in 8..12 : fits(k)}}}

\* The position-by-position scan: a token where a pattern matches,
\* otherwise one character further.
RECURSIVE RefScanFrom(_, _)
RefScanFrom(text, p) ==
    IF p > Len(text) THEN <<>>
    ELSE LET ts == RefTokensAt(text, p)
         IN  IF ts = {} THEN RefScanFrom(text, p + 1)
             ELSE LET t == CHOOSE x \in ts : TRUE
                  IN  <<t>> \o RefScanFrom(text, p + t.len)

RefScan(text) == RefScanFrom(text, 1)

\* C5: the tokens given to the evaluator are those of the
\* position-by-position scan of the text, in the order of their start
\* positions; a token that begins inside or right after a failed partial
\* match is still produced.
C5_ScanOrder ==
    (prog = "day3" /\ pc \in {"run", "printed"}) =>
        /\ tokens = SelectSeq(RefScan(content), LAMBDA t : t.start < token_end)
        /\ pc = "printed" => tokens = RefScan(content)
        /\ \A i \in 1..(Len(tokens) - 1) :
              tokens[i].start + tokens[i].len <= tokens[i + 1].start
        /\ (pc = "printed" /\ content = Ex_Skip)
              => Toks = <<TokMul(2, 3), TokMul(4, 5)>>

C5_Witness ==
    /\ Printed /\ content = Ex_Nested
    /\ tokens = <<[tok |-> TokMul(3, 4), start |-> 6, len |-> 8]>>

---------------------------------------------------------------------------
(* Properties of the three mains (Spec).                                   *)

HasResult == \E i \in 1..Len(stdout) : stdout[i].kind = "result"

\* C6: in each of the three programs a failed read ends the run without
\* the result line: the result is printed only after read_to_string
\* returned Ok, and after a failed read nothing is computed.
C6_NoResultOnReadFailure ==
    prog \in {"day1", "day2", "day3"} =>
        /\ HasResult => read = "ok"
        /\ read = "err" =>
              /\ pc = "read_failed" /\ stderr # <<>>
              /\ token_end = 0 /\ checked = 0 /\ done_lines = 0

C6_Witness ==
    /\ prog = "day3" /\ read = "err" /\ pc = "read_failed"
    /\ content = Ex_Cond /\ ~HasResult

---------------------------------------------------------------------------
(* Properties of day2 (SpecDay2).                                          *)

\* a and b differ by at least 1 and at most 3 (no intermediate value
\* leaves the i32 range).
Near(a, b) ==
    \/ a < b /\ (a > I32_MAX - 3 \/ b <= a + 3)
    \/ b < a /\ (b > I32_MAX - 3 \/ a <= b + 3)

RefSafe(list) ==
    /\ \A i \in 1..(Len(list) - 1) : Near(list[i], list[i + 1])
    /\ \/ \A i \in 1..(Len(list) - 1) : list[i] < list[i + 1]
       \/ \A i \in 1..(Len(list) - 1) : list[i] > list[i + 1]

\* C8: check_list is true for a list iff all adjacent elements differ by
\* 1 to 3 and all steps go in the same direction; check_lists is the
\* number of such lists.
C8_CheckListIffSafe ==
    (prog = "day2" /\ ~dampen) =>
        /\ \A i \in 1..Len(verdicts) : verdicts[i] = RefSafe(lists[i])
        /\ pc = "printed" =>
              Result = Cardinality({i \in 1..Len(lists) : RefSafe(lists[i])})

\* No subtraction of adjacent elements overflows or gives i32::MIN.
InRange(list) ==
    \A i \in 1..(Len(list) - 1) :
        /\ ~SubI32(list[i], list[i + 1]).ovf
        /\ SubI32(list[i], list[i + 1]).val # I32_MIN

\* The statement of C8 for the files whose differences stay inside i32.
CheckListIffSafeInRange ==
    (prog = "day2" /\ ~dampen /\ \A i \in 1..Len(lists) : InRange(lists[i])) =>
        /\ pc # "panicked"
        /\ \A i \in 1..Len(verdicts) : verdicts[i] = RefSafe(lists[i])
        /\ pc = "printed" =>
              Result = Cardinality({i \in 1..Len(lists) : RefSafe(lists[i])})

\* list without its i-th element (1-based).
RemoveAt(list, i) == SubSeq(list, 1, i - 1) \o SubSeq(list, i + 1, Len(list))

RefDampened(list, oc) ==
    \/ check_list(list, oc) = "true"
    \/ \E i \in 1..Len(list) : check_list(RemoveAt(list, i), oc) = "true"

\* C9: check_lists_dampended counts a list iff check_list holds for it or
\* for the list without one of its elements, at any index; a list that
\* check_lists counts is counted too.
C9_DampenedCount ==
    (prog = "day2" /\ dampen) =>
        /\ \A i \in 1..Len(verdicts) :
              /\ verdicts[i] = RefDampened(lists[i], overflow_checks)
              /\ PlainVerdict(lists[i], overflow_checks) = "true" => verdicts[i]
        /\ pc = "printed" =>
              Result = Cardinality({i \in 1..Len(lists) :
                                      RefDampened(lists[i], overflow_checks)})

C9_Witness ==
    /\ prog = "day2" /\ dampen /\ pc = "printed"
    /\ lists = << <<8, 1, 2, 4>>, <<1, 2, 7, 8, 9>> >>
    /\ verdicts = <<TRUE, FALSE>>
    /\ Result = 1

---------------------------------------------------------------------------
(* Properties of day1 (SpecDay1).                                          *)

Sorted(vec) == \A i \in 1..(Len(vec) - 1) : vec[i] <= vec[i + 1]

Count(vec, x) == Cardinality({i \in 1..Len(vec) : vec[i] = x})

PairsDone == {i \in 1..done_lines : lines[i].kind = "pair"}

\* The lines whose left (right) number insert has been called with.
LeftDone ==
    PairsDone \cup
    (IF pc = "panicked" /\ lines[done_lines + 1].kind = "badright"
     THEN {done_lines + 1} ELSE {})
RightDone == PairsDone

\* C10: after any sequence of insert calls from the empty vec, the vec is
\* in non-decreasing order and holds the inserted values with their
\* multiplicities; create_lists returns both columns sorted.
C10_InsertKeepsSorted ==
    prog = "day1" =>
        /\ Sorted(left_list) /\ Sorted(right_list)
        /\ Len(left_list) = Cardinality(LeftDone)
        /\ Len(right_list) = Cardinality(RightDone)
        /\ \A x \in Nums1 :
              /\ Count(left_list, x)
                    = Cardinality({i \in LeftDone : lines[i].l = x})
              /\ Count(right_list, x)
                    = Cardinality({i \in RightDone : lines[i].r = x})

C10_Witness ==
    /\ prog = "day1" /\ pc = "printed"
    /\ Len(lines) = 3 /\ PairsDone = {1, 2, 3}
    /\ <<lines[1].l, lines[2].l, lines[3].l>> = <<2, 1, 2>>
    /\ <<lines[1].r, lines[2].r, lines[3].r>> = <<3, 1, 2>>
    /\ left_list = <<1, 2, 2>> /\ right_list = <<1, 2, 3>>

===========================================================================
